---- MODULE Spec2Model ----
(***************************************************************************)
(* Model of src/src/components/MorseConverter.tsx: the MorseConverter      *)
(* React component (conversion effect, Clear, mode toggle, voice typing,   *)
(* Morse playback) and the tone schedule that playMorseCode computes.      *)
(*                                                                         *)
(* Strings are sequences of one-character strings.  Times are integers:    *)
(* the audio clock is counted in ticks and every duration of the source    *)
(* (unit, unit * 3) is an exact multiple of the unit, so the arithmetic of *)
(* the source is modelled exactly, without floating-point rounding.        *)
(***************************************************************************)
EXTENDS Integers, Sequences, FiniteSets, TLC

VARIABLES
    \* ---- component state (useState, lines 10-14) ----
    inputText,      \* line 10
    outputText,     \* line 11
    morseMode,      \* line 12: "encode" | "decode"
    isPlaying,      \* line 13
    isListening,    \* line 14
    \* ---- environment of the component ----
    effectPending,  \* the conversion effect (lines 16-29) is queued, not yet run
    sessions,       \* SpeechRecognition objects started at line 80: phase -> how many
    contexts,       \* AudioContexts opened at line 90 and not yet closed (line 125)
    host,           \* the host: [speech, audio] collaborators offered,
                    \* codecThrows: the codec throws on what it cannot convert
    notified,       \* the toast shown by the most recent handler ("none" if none)
    \* ---- one run of the scheduling loop of playMorseCode (lines 101-121) ----
    chars,          \* outputText.split('') (line 104)
    unit,           \* line 102
    startTime,      \* audioContext.currentTime read at line 101
    idx,            \* position of forEach in chars
    time,           \* the cursor `time` (line 101)
    events,         \* gainNode.gain.setValueAtTime calls of the loop, in order
    stopAt,         \* argument of oscillator.stop (line 121); -1 before the call
    pc              \* "off" | "loop" | "stopped"

compVars  == <<inputText, outputText, morseMode, isPlaying, isListening,
               effectPending, sessions, contexts, host, notified>>
schedVars == <<chars, unit, startTime, idx, time, events, stopAt, pc>>
vars      == <<inputText, outputText, morseMode, isPlaying, isListening,
               effectPending, sessions, contexts, host, notified,
               chars, unit, startTime, idx, time, events, stopAt, pc>>

(***************************************************************************)
(* Bounds of the model.                                                    *)
(***************************************************************************)
MaxLen      == 5    \* longest Morse string given to the scheduling loop
MaxUnit     == 2    \* units 1..MaxUnit
MaxStart    == 1    \* audio clock values 0..MaxStart at the start of a run

MorseChars  == {".", "-", " ", "/"}   \* "/" stands for any other character
Units       == 1..MaxUnit
StartTimes  == 0..MaxStart

SeqsUpTo(S, n) == UNION {[1..k -> S] : k \in 0..n}

\* The phases of a SpeechRecognition object that has been started and has not
\* ended, and the state with no such object.
Phases     == {"starting", "listening", "ending"}
NoSessions == [p \in Phases |-> 0]

(***************************************************************************)
(* The tone schedule: lines 101-121 of playMorseCode.                      *)
(* A schedule state is [time, events]; an event [at, on] is one call       *)
(* gainNode.gain.setValueAtTime(v, at), on = TRUE for v = 0.5 (tone on)    *)
(* and on = FALSE for v = 0 (tone off).                                    *)
(***************************************************************************)
ToneOn(t)  == [at |-> t, on |-> TRUE]
ToneOff(t) == [at |-> t, on |-> FALSE]

\* Mutants of the loop body, used to show that the claims depend on it.
CharStep_SpaceRewinds(st, char, u) ==
    CASE char = "." ->
           [time   |-> st.time + u + u,
            events |-> st.events \o <<ToneOn(st.time), ToneOff(st.time + u)>>]
      [] char = "-" ->
           [time   |-> st.time + u * 3 + u,
            events |-> st.events \o <<ToneOn(st.time), ToneOff(st.time + u * 3)>>]
      [] char = " " -> [st EXCEPT !.time = st.time - u * 3]
      [] OTHER      -> st

CharStep_SpaceBeeps(st, char, u) ==
    CASE char = "." ->
           [time   |-> st.time + u + u,
            events |-> st.events \o <<ToneOn(st.time), ToneOff(st.time + u)>>]
      [] char = "-" ->
           [time   |-> st.time + u * 3 + u,
            events |-> st.events \o <<ToneOn(st.time), ToneOff(st.time + u * 3)>>]
      [] char = " " ->
           [time   |-> st.time + u * 3,
            events |-> st.events \o <<ToneOn(st.time), ToneOff(st.time + u * 3)>>]
      [] OTHER      -> st

CharStep_ClockScaled(st, char, u) ==
    CASE char = "." ->
           [time   |-> st.time + u + u,
            events |-> st.events \o <<ToneOn(st.time), ToneOff(st.time + u)>>]
      [] char = "-" ->
           [time   |-> st.time + u * 3 + u,
            events |-> st.events \o <<ToneOn(st.time), ToneOff(st.time + u * 3)>>]
      [] char = " " -> [st EXCEPT !.time = st.time + st.time + u * 3]
      [] OTHER      -> st

CharStep_ShortDash(st, char, u) ==
    CASE char = "." ->
           [time   |-> st.time + u + u,
            events |-> st.events \o <<ToneOn(st.time), ToneOff(st.time + u)>>]
      [] char = "-" ->
           [time   |-> st.time + u * 2 + u,
            events |-> st.events \o <<ToneOn(st.time), ToneOff(st.time + u * 2)>>]
      [] char = " " -> [st EXCEPT !.time = st.time + u * 3]
      [] OTHER      -> st

CharStep_OtherBeeps(st, char, u) ==
    CASE char = "." ->
           [time   |-> st.time + u + u,
            events |-> st.events \o <<ToneOn(st.time), ToneOff(st.time + u)>>]
      [] char = "-" ->
           [time   |-> st.time + u * 3 + u,
            events |-> st.events \o <<ToneOn(st.time), ToneOff(st.time + u * 3)>>]
      [] char = " " -> [st EXCEPT !.time = st.time + u * 3]
      [] OTHER      -> [time   |-> st.time + u,
                        events |-> Append(st.events, ToneOn(st.time))]

\* The body of the forEach callback, lines 104-118.
CharStep(st, char, u) ==
    CASE char = "." ->                                    \* lines 105-109
           [time   |-> st.time + u + u,
            events |-> st.events \o <<ToneOn(st.time), ToneOff(st.time + u)>>]
      [] char = "-" ->                                    \* lines 110-114
           [time   |-> st.time + u * 3 + u,
            events |-> st.events \o <<ToneOn(st.time), ToneOff(st.time + u * 3)>>]
      [] char = " " -> [st EXCEPT !.time = st.time + u * 3]   \* lines 115-116
      [] OTHER      -> st

\* The whole loop over a string, from cursor state st.
RECURSIVE ForEach(_, _, _)
ForEach(st, cs, u) ==
    IF cs = <<>> THEN st ELSE ForEach(CharStep(st, Head(cs), u), Tail(cs), u)

\* Lines 101-121: the schedule of a string started at clock value t0.
\* Result: [time |-> the argument of oscillator.stop, events |-> tone events].
Schedule(cs, t0, u) == ForEach([time |-> t0, events |-> <<>>], cs, u)

(***************************************************************************)
(* Specification SchedSpec: one run of the scheduling loop on an arbitrary *)
(* Morse string, unit and start instant, one character per step.           *)
(***************************************************************************)
CompIdle ==
    /\ inputText = <<>>
    /\ outputText = <<>>
    /\ morseMode = "encode"
    /\ isPlaying = FALSE
    /\ isListening = FALSE
    /\ effectPending = FALSE
    /\ sessions = NoSessions
    /\ contexts = <<>>
    /\ host = [speech |-> TRUE, audio |-> TRUE, codecThrows |-> FALSE]
    /\ notified = "none"

SchedInit ==
    /\ CompIdle
    /\ chars \in SeqsUpTo(MorseChars, MaxLen)
    /\ unit \in Units
    /\ startTime \in StartTimes
    /\ idx = 1
    /\ time = startTime                 \* line 101
    /\ events = <<>>
    /\ stopAt = -1
    /\ pc = "loop"

\* One call of the forEach callback (lines 104-118).
SchedChar ==
    /\ pc = "loop"
    /\ idx <= Len(chars)
    /\ LET st == CharStep([time |-> time, events |-> events], chars[idx], unit)
       IN  /\ time' = st.time
           /\ events' = st.events
    /\ idx' = idx + 1
    /\ UNCHANGED <<chars, unit, startTime, stopAt, pc>>
    /\ UNCHANGED compVars

\* oscillator.start(); oscillator.stop(time) (lines 120-121).
SchedStop ==
    /\ pc = "loop"
    /\ idx > Len(chars)
    /\ stopAt' = time
    /\ pc' = "stopped"
    /\ UNCHANGED <<chars, unit, startTime, idx, time, events>>
    /\ UNCHANGED compVars

SchedNext == SchedChar \/ SchedStop

SchedSpec == SchedInit /\ [][SchedNext]_vars

(***************************************************************************)
(* The codec, ../utils/morseUtils (imported at line 2; its source is not   *)
(* part of the files modelled here, so it follows the specification:       *)
(* codes of a word separated by one space, words by three spaces,          *)
(* unsupported characters and unknown codes skipped, never a failure).     *)
(* The table of the model holds the letter E alone; every other character  *)
(* of InputChars but the space stands for an unsupported one.              *)
(***************************************************************************)
AlphabetTable == [c \in {"e"} |-> <<".">>]

RECURSIVE SplitAcc(_, _, _)
SplitAcc(s, sep, cur) ==
    IF s = <<>> THEN <<cur>>
    ELSE IF Len(s) >= Len(sep) /\ SubSeq(s, 1, Len(sep)) = sep
         THEN <<cur>> \o SplitAcc(SubSeq(s, Len(sep) + 1, Len(s)), sep, <<>>)
         ELSE SplitAcc(Tail(s), sep, Append(cur, Head(s)))

Split(s, sep) == SplitAcc(s, sep, <<>>)

RECURSIVE Join(_, _)
Join(parts, sep) ==
    IF parts = <<>> THEN <<>>
    ELSE IF Len(parts) = 1 THEN parts[1]
    ELSE parts[1] \o sep \o Join(Tail(parts), sep)

NonEmpty(parts) == SelectSeq(parts, LAMBDA p : p # <<>>)

EncodeWord(w) ==
    Join([i \in 1..Len(SelectSeq(w, LAMBDA c : c \in DOMAIN AlphabetTable)) |->
            AlphabetTable[SelectSeq(w, LAMBDA c : c \in DOMAIN AlphabetTable)[i]]],
         <<" ">>)

textToMorse(text) ==
    LET words == NonEmpty(Split(text, <<" ">>))
        coded == NonEmpty([i \in 1..Len(words) |-> EncodeWord(words[i])])
    IN  Join(coded, <<" ", " ", " ">>)

DecodeWord(w) ==
    LET known == SelectSeq(Split(w, <<" ">>),
                           LAMBDA tok : \E c \in DOMAIN AlphabetTable : AlphabetTable[c] = tok)
    IN  [i \in 1..Len(known) |->
            CHOOSE c \in DOMAIN AlphabetTable : AlphabetTable[c] = known[i]]

morseToText(morse) ==
    LET words   == Split(morse, <<" ", " ", " ">>)
        decoded == NonEmpty([i \in 1..Len(words) |-> DecodeWord(words[i])])
    IN  Join(decoded, <<" ">>)

(***************************************************************************)
(* The component.                                                          *)
(***************************************************************************)
MaxInput    == 2    \* longest inputText typed; a speech result is appended
                    \* to a shorter one only
MaxSessions == 2    \* SpeechRecognition objects alive at once

UnitTicks   == 1    \* const unit = 0.1 (line 102): one tick of the model's clock

InputChars  == {"e", ".", " "}
Inputs      == SeqsUpTo(InputChars, MaxInput)
Transcripts == {<<"e">>}

\* An edit of the textarea: one character typed at the end, or the last one
\* deleted.  Every value of e.target.value is reached by such edits, and the
\* handler depends on the new value alone.
Edits(text) ==
    {Append(text, c) : c \in InputChars} \cup
    (IF text = <<>> THEN {} ELSE {SubSeq(text, 1, Len(text) - 1)})

\* The conversion the effect performs, lines 18-24.
Converted(mode, text) ==
    IF mode = "encode" THEN textToMorse(text) ELSE morseToText(text)

\* The specification makes the codec total; the catch of lines 25-28 is for a
\* codec that throws.  Such a codec is modelled as one that throws on a
\* text holding a character it cannot convert in the given mode.
Unconvertible(mode, text) ==
    \E i \in 1..Len(text) :
        IF mode = "encode" THEN text[i] \notin (DOMAIN AlphabetTable \cup {" "})
        ELSE text[i] \notin {".", "-", " "}

CodecThrows(mode, text) == host.codecThrows /\ Unconvertible(mode, text)

ConversionError == "Invalid input for conversion"

\* A queued run of the effect throws.
FlushThrows == effectPending /\ CodecThrows(morseMode, inputText)

\* React runs a queued passive effect before it renders the next update:
\* the output a handler's own render starts from.  An effect that throws
\* leaves the output alone (lines 25-28).
Flushed ==
    IF effectPending /\ ~CodecThrows(morseMode, inputText)
    THEN Converted(morseMode, inputText) ELSE outputText

\* The last toast of a step whose handler shows t and that runs a queued effect.
FlushedToast(t) == IF FlushThrows THEN ConversionError ELSE t

AfterRender_NoEffect(in, md, out) == out

AfterRender_ThrowClears(in, md, out) ==
    IF in # inputText \/ md # morseMode
    THEN IF CodecThrows(md, in) THEN <<>> ELSE Converted(md, in)
    ELSE IF effectPending /\ ~CodecThrows(morseMode, inputText)
         THEN Converted(morseMode, inputText) ELSE out

\* The output after a handler called from a React event (click, change) that
\* leaves input in, mode md and output out: the effect (deps [inputText,
\* morseMode], line 29) runs within the same event when a dependency changed,
\* after the effect that was queued, if any.
AfterRender(in, md, out) ==
    IF (in # inputText \/ md # morseMode) /\ ~CodecThrows(md, in)
    THEN Converted(md, in)
    ELSE IF effectPending /\ ~CodecThrows(morseMode, inputText)
         THEN Converted(morseMode, inputText) ELSE out

\* The last toast of such a step, whose handler shows t.
AfterRenderToast(in, md, t) ==
    IF (in # inputText \/ md # morseMode) /\ CodecThrows(md, in) THEN ConversionError
    ELSE FlushedToast(t)

CompInit ==
    /\ inputText = <<>>
    /\ outputText = <<>>
    /\ morseMode = "encode"
    /\ isPlaying = FALSE
    /\ isListening = FALSE
    /\ effectPending = FALSE
    /\ sessions = NoSessions
    /\ contexts = <<>>
    /\ host \in [speech : BOOLEAN, audio : BOOLEAN, codecThrows : BOOLEAN]
    /\ notified = "none"

SchedOff ==
    /\ chars = <<>>
    /\ unit = UnitTicks
    /\ startTime = 0
    /\ idx = 1
    /\ time = 0
    /\ events = <<>>
    /\ stopAt = -1
    /\ pc = "off"

Init == CompInit /\ SchedOff

\* Textarea onChange, line 156.
ChangeInput(v) ==
    /\ v \in Inputs
    /\ inputText' = v
    /\ outputText' = AfterRender(v, morseMode, outputText)
    /\ effectPending' = FALSE
    /\ notified' = AfterRenderToast(v, morseMode, "none")
    /\ UNCHANGED <<morseMode, isPlaying, isListening, sessions, contexts, host>>
    /\ UNCHANGED schedVars

\* handleCopyToClipboard, lines 31-34.
HandleCopyToClipboard ==
    /\ notified' = "Output copied to clipboard"
    /\ UNCHANGED <<inputText, outputText, morseMode, isPlaying, isListening,
                   effectPending, sessions, contexts, host>>
    /\ UNCHANGED schedVars

\* handleClear, lines 36-40 (Clear button, line 185).
HandleClear ==
    /\ inputText' = <<>>
    /\ outputText' = AfterRender(<<>>, morseMode, <<>>)
    /\ effectPending' = FALSE
    /\ notified' = AfterRenderToast(<<>>, morseMode, "Input cleared")
    /\ UNCHANGED <<morseMode, isPlaying, isListening, sessions, contexts, host>>
    /\ UNCHANGED schedVars

ToggleMode_StopsPlayback ==
    /\ morseMode' = (IF morseMode = "encode" THEN "decode" ELSE "encode")
    /\ inputText' = <<>>
    /\ outputText' = AfterRender(<<>>, morseMode', <<>>)
    /\ effectPending' = FALSE
    /\ notified' = AfterRenderToast(<<>>, morseMode', "Input cleared")
    /\ isPlaying' = FALSE
    /\ contexts' = <<>>
    /\ UNCHANGED <<isListening, sessions, host>>
    /\ UNCHANGED schedVars

\* toggleMode, lines 42-45.
ToggleMode ==
    /\ morseMode' = (IF morseMode = "encode" THEN "decode" ELSE "encode")
    /\ inputText' = <<>>
    /\ outputText' = AfterRender(<<>>, morseMode', <<>>)
    /\ effectPending' = FALSE
    /\ notified' = AfterRenderToast(<<>>, morseMode', "Input cleared")
    /\ UNCHANGED <<isPlaying, isListening, sessions, contexts, host>>
    /\ UNCHANGED schedVars

\* The conversion effect, lines 16-29, when it runs on its own (after a
\* state update made outside a React event).
ConversionEffect ==
    /\ effectPending
    /\ outputText' = Flushed
    /\ effectPending' = FALSE
    /\ notified' = FlushedToast("none")
    /\ UNCHANGED <<inputText, morseMode, isPlaying, isListening, sessions,
                   contexts, host>>
    /\ UNCHANGED schedVars

(***************************************************************************)
(* Voice typing, lines 47-86.  A SpeechRecognition object goes through     *)
(* "starting" (start() called, line 80) -> "listening" (onstart) ->        *)
(* "ending" (onresult; continuous = false, one result) or, from            *)
(* "starting" or "listening", "ending" as well (onerror); onend comes      *)
(* last and ends the session.  The handlers keep no reference to their     *)
(* object, so the state is the number of objects in each phase.            *)
(***************************************************************************)
ActiveSessions == sessions["starting"] + sessions["listening"]
                  + sessions["ending"]

\* A session object moves from phase p to phase q.
Moved(p, q) == [sessions EXCEPT ![p] = @ - 1, ![q] = @ + 1]

MicButtonEnabled_Always == morseMode = "encode"

\* The mic button, lines 159-170: rendered in encode mode, disabled={isListening}.
MicButtonEnabled == morseMode = "encode" /\ ~isListening

\* startVoiceTyping without a SpeechRecognition constructor, lines 49-53.
StartVoiceTypingUnsupported ==
    /\ MicButtonEnabled
    /\ ~host.speech
    /\ notified' = "Speech recognition is not supported in your browser"
    /\ UNCHANGED <<inputText, outputText, morseMode, isPlaying, isListening,
                   effectPending, sessions, contexts, host>>
    /\ UNCHANGED schedVars

\* startVoiceTyping, lines 55-80: a new recognizer is created and started.
StartVoiceTyping ==
    /\ MicButtonEnabled
    /\ host.speech
    /\ ActiveSessions < MaxSessions
    /\ sessions' = [sessions EXCEPT !["starting"] = @ + 1]
    /\ notified' = "none"
    /\ UNCHANGED <<inputText, outputText, morseMode, isPlaying, isListening,
                   effectPending, contexts, host>>
    /\ UNCHANGED schedVars

\* startVoiceTyping when the constructor or start() throws, lines 81-85.
StartVoiceTypingThrows ==
    /\ MicButtonEnabled
    /\ host.speech
    /\ isListening' = FALSE
    /\ outputText' = Flushed
    /\ effectPending' = FALSE
    /\ notified' = FlushedToast("Failed to start speech recognition")
    /\ UNCHANGED <<inputText, morseMode, isPlaying, sessions, contexts, host>>
    /\ UNCHANGED schedVars

\* recognition.onstart, lines 60-63.
OnStart ==
    /\ sessions["starting"] > 0
    /\ sessions' = Moved("starting", "listening")
    /\ isListening' = TRUE
    /\ outputText' = Flushed
    /\ effectPending' = FALSE
    /\ notified' = FlushedToast("Listening...")
    /\ UNCHANGED <<inputText, morseMode, isPlaying, contexts, host>>
    /\ UNCHANGED schedVars

OnResult_Replaces(transcript) ==
    /\ sessions["listening"] > 0
    /\ Len(inputText) < MaxInput
    /\ sessions' = Moved("listening", "ending")
    /\ inputText' = transcript
    /\ outputText' = Flushed
    /\ effectPending' = TRUE
    /\ notified' = FlushedToast("none")
    /\ UNCHANGED <<morseMode, isPlaying, isListening, contexts, host>>
    /\ UNCHANGED schedVars

\* recognition.onresult, lines 65-68.  The update is made outside a React
\* event: the conversion effect it triggers is queued.
OnResult(transcript) ==
    /\ sessions["listening"] > 0
    /\ Len(inputText) < MaxInput
    /\ sessions' = Moved("listening", "ending")
    /\ inputText' = inputText \o (IF inputText # <<>> THEN <<" ">> ELSE <<>>) \o transcript
    /\ outputText' = Flushed
    /\ effectPending' = TRUE
    /\ notified' = FlushedToast("none")
    /\ UNCHANGED <<morseMode, isPlaying, isListening, contexts, host>>
    /\ UNCHANGED schedVars

OnError_KeepsListening(p) ==
    /\ p \in {"starting", "listening"}
    /\ sessions[p] > 0
    /\ sessions' = Moved(p, "ending")
    /\ outputText' = Flushed
    /\ effectPending' = FALSE
    /\ notified' = FlushedToast("Failed to recognize speech")
    /\ UNCHANGED <<inputText, morseMode, isPlaying, isListening, contexts, host>>
    /\ UNCHANGED schedVars

\* recognition.onerror, lines 70-74.
OnError(p) ==
    /\ p \in {"starting", "listening"}
    /\ sessions[p] > 0
    /\ sessions' = Moved(p, "ending")
    /\ isListening' = FALSE
    /\ outputText' = Flushed
    /\ effectPending' = FALSE
    /\ notified' = FlushedToast("Failed to recognize speech")
    /\ UNCHANGED <<inputText, morseMode, isPlaying, contexts, host>>
    /\ UNCHANGED schedVars

OnEnd_KeepsListening(p) ==
    /\ p \in {"listening", "ending"}
    /\ sessions[p] > 0
    /\ sessions' = [sessions EXCEPT ![p] = @ - 1]
    /\ outputText' = Flushed
    /\ effectPending' = FALSE
    /\ notified' = FlushedToast("none")
    /\ UNCHANGED <<inputText, morseMode, isPlaying, isListening, contexts, host>>
    /\ UNCHANGED schedVars

\* recognition.onend, lines 76-78.
OnEnd(p) ==
    /\ p \in {"listening", "ending"}
    /\ sessions[p] > 0
    /\ sessions' = [sessions EXCEPT ![p] = @ - 1]
    /\ isListening' = FALSE
    /\ outputText' = Flushed
    /\ effectPending' = FALSE
    /\ notified' = FlushedToast("none")
    /\ UNCHANGED <<inputText, morseMode, isPlaying, contexts, host>>
    /\ UNCHANGED schedVars

(***************************************************************************)
(* Playback, lines 88-127.  A context record keeps the string played and   *)
(* the stop instant of its oscillator; a fresh AudioContext's currentTime  *)
(* is 0, so the timer of line 123 runs for stop ticks.                     *)
(***************************************************************************)
PlayButtonEnabled_IgnoresPlaying == morseMode = "encode" /\ outputText # <<>>

PlayButtonEnabled_IgnoresOutput == morseMode = "encode" /\ ~isPlaying

\* The Play button, lines 200-209: rendered in encode mode,
\* disabled={isPlaying || !outputText}.
PlayButtonEnabled == morseMode = "encode" /\ ~isPlaying /\ outputText # <<>>

\* playMorseCode, lines 88-127.
PlayMorseCode ==
    /\ PlayButtonEnabled
    /\ host.audio
    /\ isPlaying' = TRUE
    /\ contexts' = Append(contexts,
                          [morse |-> outputText,
                           stop  |-> Schedule(outputText, 0, UnitTicks).time])
    /\ outputText' = Flushed
    /\ effectPending' = FALSE
    /\ notified' = FlushedToast("none")
    /\ UNCHANGED <<inputText, morseMode, isListening, sessions, host>>
    /\ UNCHANGED schedVars

\* playMorseCode when new AudioContext() throws at line 90: line 89 has run,
\* nothing catches the exception, no timer is set.
PlayMorseCodeNoAudio ==
    /\ PlayButtonEnabled
    /\ ~host.audio
    /\ isPlaying' = TRUE
    /\ outputText' = Flushed
    /\ effectPending' = FALSE
    /\ notified' = FlushedToast("none")
    /\ UNCHANGED <<inputText, morseMode, isListening, sessions, contexts, host>>
    /\ UNCHANGED schedVars

\* The setTimeout callback of lines 123-126, for the i-th open context.
PlaybackTimer(i) ==
    /\ i \in 1..Len(contexts)
    /\ isPlaying' = FALSE
    /\ contexts' = SubSeq(contexts, 1, i - 1) \o SubSeq(contexts, i + 1, Len(contexts))
    /\ outputText' = Flushed
    /\ effectPending' = FALSE
    /\ notified' = FlushedToast("none")
    /\ UNCHANGED <<inputText, morseMode, isListening, sessions, host>>
    /\ UNCHANGED schedVars

Next ==
    \/ \E v \in Edits(inputText) : ChangeInput(v)
    \/ HandleCopyToClipboard
    \/ HandleClear
    \/ ToggleMode
    \/ ConversionEffect
    \/ StartVoiceTypingUnsupported
    \/ StartVoiceTyping
    \/ StartVoiceTypingThrows
    \/ OnStart
    \/ \E tr \in Transcripts : OnResult(tr)
    \/ \E p \in Phases : OnError(p)
    \/ \E p \in Phases : OnEnd(p)
    \/ PlayMorseCode
    \/ PlayMorseCodeNoAudio
    \/ \E i \in 1..Len(contexts) : PlaybackTimer(i)

Spec == Init /\ [][Next]_vars

\* The timer of line 123 fires once its delay has passed, and a recognizer
\* that was started fires its end event: neither waits for ever.
FairSpec ==
    /\ Spec
    /\ WF_vars(\E i \in 1..Len(contexts) : PlaybackTimer(i))
    /\ WF_vars(\E p \in Phases : OnEnd(p))

(***************************************************************************)
(* Properties of the tone schedule, checked under SchedSpec.               *)
(***************************************************************************)
\* The positions of chars that hold a symbol, and the number of symbols up
\* to position i: the k-th symbol emits events 2k - 1 (on) and 2k (off).
SymIdx  == {i \in 1..Len(chars) : chars[i] \in {".", "-"}}
Rank(i) == Cardinality({j \in SymIdx : j <= i})
Adjacent(i, j) == i \in SymIdx /\ j \in SymIdx /\ i < j
                  /\ \A k \in SymIdx : ~(i < k /\ k < j)
\* The silence between the tone-off of the symbol at i and the tone-on of
\* the symbol at j.
Silence(i, j) == events[2 * Rank(j) - 1].at - events[2 * Rank(i)].at
Between(i, j) == SubSeq(chars, i + 1, j - 1)
Done == pc = "stopped" /\ Len(events) = 2 * Cardinality(SymIdx)

\* C1: the silence across a character boundary (one space) is exactly
\* 3 * unit and across a word boundary (three spaces) exactly 7 * unit: the
\* larger of the pending inter-symbol gap and the required gap, not their sum.
C1_GapIsLargerNotSum ==
    pc = "stopped" =>
        /\ Len(events) = 2 * Cardinality(SymIdx)
        /\ \A i, j \in SymIdx :
             Adjacent(i, j) =>
               /\ Between(i, j) = <<" ">> => Silence(i, j) = 3 * unit
               /\ Between(i, j) = <<" ", " ", " ">> => Silence(i, j) = 7 * unit

\* What the loop does instead: the inter-symbol gap of line 109 / 114 and
\* the 3 * unit of every space (line 116) add up.
SilenceIsSum ==
    pc = "stopped" =>
        /\ Len(events) = 2 * Cardinality(SymIdx)
        /\ \A i, j \in SymIdx :
             Adjacent(i, j) =>
               Silence(i, j) = unit + 3 * unit *
                   Cardinality({k \in (i + 1)..(j - 1) : chars[k] = " "})

\* C5: the schedule of "." is tone-on at offset 0, tone-off at offset unit,
\* and tone generation is stopped at offset unit.
C5_DotSchedule ==
    (pc = "stopped" /\ chars = <<".">>) =>
        /\ events = <<ToneOn(startTime), ToneOff(startTime + unit)>>
        /\ stopAt - startTime = unit

\* C6: the schedule of "-" is tone-on at offset 0, tone-off at offset
\* 3 * unit, and tone generation is stopped at offset 3 * unit.
C6_DashSchedule ==
    (pc = "stopped" /\ chars = <<"-">>) =>
        /\ events = <<ToneOn(startTime), ToneOff(startTime + 3 * unit)>>
        /\ stopAt - startTime = 3 * unit

\* What the loop does for a single symbol: the oscillator is stopped one
\* unit after the tone-off (the trailing gap of line 109 / 114).
SingleSymbolStop ==
    (pc = "stopped" /\ Len(chars) = 1 /\ SymIdx = {1}) =>
        /\ Len(events) = 2
        /\ stopAt = events[2].at + unit

\* C7: in every step of the loop the cursor time does not move backwards and
\* the timestamps of the tone events emitted so far are non-decreasing in
\* emission order.
C7_NonDecreasing ==
    [][/\ time' >= time
       /\ \A i \in 1..(Len(events') - 1) : events'[i].at <= events'[i + 1].at]_vars

C7_Witness ==
    /\ pc = "stopped"
    /\ Len(events) = 4
    /\ \E i \in 1..Len(chars) : chars[i] = " "
    /\ events[3].at > events[2].at

\* C9: a non-empty string of spaces alone schedules no tone-on event and
\* stops the oscillator strictly after the start instant.
C9_OnlyGaps ==
    (pc = "stopped" /\ chars # <<>> /\ \A i \in 1..Len(chars) : chars[i] = " ") =>
        /\ \A i \in 1..Len(events) : ~events[i].on
        /\ stopAt - startTime > 0

C9_Witness ==
    /\ pc = "stopped"
    /\ chars = <<" ", " ", " ">>
    /\ events = <<>>
    /\ stopAt = startTime + 9 * unit

\* C10: the offsets from the start instant of the events of a finished run,
\* and its total duration, are those of the schedule of the same string and
\* unit recomputed from every other start instant.
Offsets(evs, t0) == [i \in 1..Len(evs) |-> [at |-> evs[i].at - t0, on |-> evs[i].on]]

C10_Restartable ==
    pc = "stopped" =>
        \A t0 \in StartTimes :
            /\ Offsets(Schedule(chars, t0, unit).events, t0) = Offsets(events, startTime)
            /\ Schedule(chars, t0, unit).time - t0 = stopAt - startTime

C10_Witness ==
    /\ pc = "stopped"
    /\ startTime > 0
    /\ Len(events) >= 4
    /\ \E i \in 1..Len(chars) : chars[i] = " "

(***************************************************************************)
(* Properties of the component, checked under Spec.                        *)
(***************************************************************************)
\* C2: at most one capture session is started and not yet ended.
C2_OneCaptureSession == ActiveSessions <= 1

\* C3: no step leaves more than one AudioContext open, and no step opens
\* one while isPlaying is true.
C3_OnePlayback ==
    [][/\ Len(contexts') <= 1
       /\ isPlaying => Len(contexts') <= Len(contexts)]_vars

C3_Witness ==
    /\ isPlaying
    /\ Len(contexts) = 1
    /\ morseMode = "decode"
    /\ inputText # <<>>

\* C4: an operation that finds its collaborator missing shows an error
\* notification and leaves inputText, outputText, morseMode, isPlaying and
\* isListening as they were.
ErrorToasts == {"Speech recognition is not supported in your browser",
                "Failed to start speech recognition",
                "Failed to recognize speech",
                ConversionError}

C4_UnavailableAborts ==
    [][(StartVoiceTypingUnsupported \/ PlayMorseCodeNoAudio) =>
          /\ notified' \in ErrorToasts
          /\ UNCHANGED <<inputText, outputText, morseMode, isPlaying, isListening>>]_vars

\* The half of C4 that the code keeps: without a SpeechRecognition
\* constructor, startVoiceTyping notifies and changes nothing.
VoiceUnsupportedAborts ==
    [][StartVoiceTypingUnsupported =>
          /\ notified' \in ErrorToasts
          /\ UNCHANGED <<inputText, outputText, morseMode, isPlaying, isListening>>]_vars

\* C8: the schedule of the empty string has no tone event and stops at the
\* start instant, and every playback was started on a non-empty outputText.
C8_EmptySchedule ==
    /\ \A u \in Units, t0 \in StartTimes :
         Schedule(<<>>, t0, u) = [time |-> t0, events |-> <<>>]
    /\ \A i \in 1..Len(contexts) : contexts[i].morse # <<>>

C8_Witness ==
    /\ Len(contexts) = 1
    /\ outputText = <<>>
    /\ morseMode = "encode"

\* C11: a step in which the recognizer reports an error, or in which
\* starting the recognizer throws, shows an error notification, leaves
\* isListening false and does not touch inputText or morseMode; outputText
\* is not written by the failure either: it changes in the step only when a
\* conversion effect was queued, which then runs before the re-render.
C11_CaptureFailureResets ==
    [][((\E p \in Phases : OnError(p)) \/ StartVoiceTypingThrows) =>
          /\ notified' \in ErrorToasts
          /\ isListening' = FALSE
          /\ UNCHANGED <<inputText, morseMode>>
          /\ outputText' = Flushed]_vars

C11_Witness ==
    /\ notified = "Failed to recognize speech"
    /\ sessions["ending"] > 0
    /\ ~isListening
    /\ inputText # <<>>
    /\ outputText # <<>>
    /\ morseMode = "encode"

\* C12: a step that delivers a result turns inputText into the inputText
\* current at delivery, followed by one space when it was non-empty and by
\* nothing when it was empty, followed by the transcript.
C12_ResultAppends ==
    [][(\E tr \in Transcripts : OnResult(tr)) =>
          \E tr \in Transcripts :
              inputText' = IF inputText = <<>> THEN tr
                           ELSE inputText \o <<" ">> \o tr]_vars

\* An input edited after the session started, then extended by the result.
C12_Witness ==
    /\ effectPending
    /\ sessions["ending"] > 0
    /\ Len(inputText) = 3
    /\ inputText[1] = "."
    /\ inputText[2] = " "
    /\ inputText[3] = "e"

\* C13: a step in which the conversion throws shows the conversion error
\* and leaves outputText as it was before the conversion ran, and morseMode
\* and the input converted as they are; the effect is over afterwards.
C13_ConversionFailure ==
    [][/\ (ConversionEffect /\ CodecThrows(morseMode, inputText)) =>
            /\ notified' = ConversionError
            /\ UNCHANGED <<inputText, outputText, morseMode>>
            /\ effectPending' = FALSE
       /\ ((\E v \in Inputs : ChangeInput(v)) /\ CodecThrows(morseMode, inputText')) =>
            /\ notified' = ConversionError
            /\ outputText' = Flushed
            /\ morseMode' = morseMode
            /\ effectPending' = FALSE]_vars

\* "e." typed in encode mode with a codec that throws on ".": the output
\* keeps the conversion of "e".
C13_Witness ==
    /\ host.codecThrows
    /\ morseMode = "encode"
    /\ inputText = <<"e", ".">>
    /\ outputText = <<".">>
    /\ notified = ConversionError

(***************************************************************************)
(* Further properties of the tone schedule, checked under SchedSpec.       *)
(***************************************************************************)
\* C14: in a finished schedule every dot keeps the tone on for unit and
\* every dash for 3 * unit, and the silence between two consecutive symbols
\* with no space between them is unit.
C14_SymbolTiming ==
    pc = "stopped" =>
        /\ Len(events) = 2 * Cardinality(SymIdx)
        /\ \A i \in SymIdx :
             /\ events[2 * Rank(i) - 1].on
             /\ ~events[2 * Rank(i)].on
             /\ events[2 * Rank(i)].at - events[2 * Rank(i) - 1].at =
                   IF chars[i] = "." THEN unit ELSE 3 * unit
        /\ \A i, j \in SymIdx :
             (Adjacent(i, j) /\ \A k \in (i + 1)..(j - 1) : chars[k] # " ") =>
                 Silence(i, j) = unit

C14_Witness ==
    /\ pc = "stopped"
    /\ chars = <<".", "-", ".">>
    /\ unit > 1
    /\ Len(events) = 6

\* C18: after every step of the loop the tone events alternate on, off,
\* starting with on and ending with off; the oscillator is stopped no
\* earlier than the last tone-off; and a character other than ".", "-" and
\* " " emits no event and leaves the cursor where it is.
Alternates(evs) ==
    /\ Len(evs) % 2 = 0
    /\ \A i \in 1..Len(evs) : evs[i].on = (i % 2 = 1)

C18_Alternation ==
    [][/\ Alternates(events')
       /\ (pc' = "stopped" /\ events' # <<>>) => stopAt' >= events'[Len(events')].at
       /\ (SchedChar /\ chars[idx] \notin {".", "-", " "}) =>
              (time' = time /\ events' = events)]_vars

C18_Witness ==
    /\ pc = "stopped"
    /\ Len(events) = 4
    /\ \E i \in 1..Len(chars) : chars[i] = "/"
    /\ stopAt > events[4].at

(***************************************************************************)
(* Further properties of the component, checked under Spec.                *)
(***************************************************************************)
\* C15: whenever no conversion effect is queued and the codec does not throw
\* on the current input, outputText is the conversion of inputText in the
\* current mode.
C15_OutputIsConversion ==
    (~effectPending /\ ~CodecThrows(morseMode, inputText)) =>
        outputText = IF morseMode = "encode" THEN textToMorse(inputText)
                     ELSE morseToText(inputText)

\* After a speech result was appended to a typed input and converted.
C15_Witness ==
    /\ ~effectPending
    /\ morseMode = "encode"
    /\ sessions["ending"] > 0
    /\ inputText = <<"e", " ", "e">>
    /\ outputText = <<".", " ", " ", " ", ".">>

\* The same in decode mode.
C15_WitnessDecode ==
    /\ ~effectPending
    /\ morseMode = "decode"
    /\ inputText = <<".", " ">>
    /\ outputText = <<"e">>

\* C19: toggleMode flips morseMode and empties inputText and outputText,
\* Clear empties both and keeps morseMode; neither changes isPlaying or
\* isListening, closes an AudioContext or ends a capture session.
C19_ClearAndToggleFrame ==
    [][/\ ToggleMode =>
            /\ morseMode' # morseMode
            /\ morseMode' \in {"encode", "decode"}
            /\ inputText' = <<>>
            /\ outputText' = <<>>
            /\ UNCHANGED <<isPlaying, isListening, contexts, sessions>>
       /\ HandleClear =>
            /\ inputText' = <<>>
            /\ outputText' = <<>>
            /\ UNCHANGED <<morseMode, isPlaying, isListening, contexts, sessions>>]_vars

\* Toggled to decode while a playback and a capture session are in progress.
C19_Witness ==
    /\ notified = "Input cleared"
    /\ morseMode = "decode"
    /\ inputText = <<>>
    /\ outputText = <<>>
    /\ isPlaying
    /\ Len(contexts) = 1
    /\ isListening
    /\ sessions["listening"] = 1

\* C20: no step that delivers a speech result is taken in decode mode.
C20_ResultOnlyInEncode ==
    [][(\E tr \in Transcripts : OnResult(tr)) => morseMode = "encode"]_vars

\* What the code guarantees instead: a recognizer is started in encode mode only.
StartOnlyInEncode ==
    [][ActiveSessions' > ActiveSessions => morseMode = "encode"]_vars

(***************************************************************************)
(* Termination, checked under FairSpec.                                    *)
(***************************************************************************)
\* C16: whenever isPlaying is true it eventually becomes false again, and
\* every AudioContext that was opened is eventually closed.
C16_PlaybackTerminates ==
    /\ isPlaying ~> ~isPlaying
    /\ (contexts # <<>>) ~> (contexts = <<>>)

\* What holds instead: a playback whose AudioContext could be created ends.
OpenedPlaybackTerminates ==
    /\ (isPlaying /\ host.audio) ~> ~isPlaying
    /\ (contexts # <<>>) ~> (contexts = <<>>)

\* C17: whenever isListening is true it eventually becomes false again, and
\* it is true only while some capture session is started and not yet ended.
C17_CaptureTerminates ==
    /\ isListening ~> ~isListening
    /\ [](isListening => ActiveSessions > 0)

\* A second session was started after the first one's onerror and is
\* listening while the first has not ended.
C17_Witness ==
    /\ isListening
    /\ sessions["listening"] = 1
    /\ sessions["ending"] = 1

====
